---- MODULE Spec2Model ----
(***************************************************************************)
(* Battery pack log: the serial-allocation and uniqueness-enforcement      *)
(* engine of server/routes/packs.ts over the document store of             *)
(* server/utils/db.ts.                                                     *)
(*                                                                         *)
(* Strings whose characters the code inspects (pack serials, module        *)
(* serials, cell serials, pasted cell text) are sequences of one-character *)
(* strings, so startsWith, slice, trim, split, padStart, the \d{n} tests   *)
(* and parseInt are computed as the code computes them.  A JavaScript      *)
(* object with string keys is a sequence of <<key, value>> pairs in        *)
(* insertion order, the order Object.keys / Object.entries iterate in      *)
(* (none of the keys used here is an integer-like string).                 *)
(***************************************************************************)
EXTENDS Integers, Sequences, FiniteSets

VARIABLES
    file,      \* the Fleet Document stored at DB_PATH: [packs, config]
    now,       \* the wall clock read by new Date(): [year, month, date]
    reqs,      \* per request slot: the request in flight, its suspended handler, its response
    prevAuto,  \* <<u1, u2>>: the unit counters given by the last two successful
               \* allocations without an explicit serial, 0 where another write
               \* came since or there was none (history)
    call,      \* FnSpec: a pure function, its arguments and its result;
               \* StoreSpec: the last store call, what was last written, its result
    remote     \* the Supabase side of the store: the remote object and the
               \* downloads and uploads in flight; unused when getSupabase() is null

vars == <<file, now, reqs, prevAuto, call, remote>>

(***************************************************************************)
(* Bounds of the model.                                                    *)
(***************************************************************************)
\* packs a document may hold before a further new pack is no longer submitted
MaxPacks == 2
\* request slots of the concurrent specification
MaxInFlight == 2
\* length of the cell lists handed to duplicatesInArray in FnSpec
MaxLen == 3
\* size of the key sets handed to the serial schemes in FnSpec
MaxKeys == 3
\* module serial counter past which no further allocation is submitted
MaxSeq == 4
MaxTransfers == 2

(***************************************************************************)
(* Strings.                                                                *)
(***************************************************************************)
DigitChars == <<"0", "1", "2", "3", "4", "5", "6", "7", "8", "9">>

IsDigit(c) == \E i \in 1..Len(DigitChars) : DigitChars[i] = c

DigitVal(c) == (CHOOSE i \in 1..Len(DigitChars) : DigitChars[i] = c) - 1

\* /^\d{n}$/.test(s)
IsDigits(s, n) == Len(s) = n /\ \A i \in 1..Len(s) : IsDigit(s[i])

\* parseInt(s, 10) of a string of decimal digits
RECURSIVE ParseInt(_)
ParseInt(s) ==
    IF s = << >> THEN 0
    ELSE 10 * ParseInt(SubSeq(s, 1, Len(s) - 1)) + DigitVal(s[Len(s)])

\* String(n) of a non-negative integer
RECURSIVE NumToString(_)
NumToString(n) ==
    IF n < 10 THEN <<DigitChars[n + 1]>>
    ELSE NumToString(n \div 10) \o <<DigitChars[(n % 10) + 1]>>

\* s.padStart(w, c): pads on the left up to w characters, never truncates
RECURSIVE PadStart(_, _, _)
PadStart(s, w, c) == IF Len(s) >= w THEN s ELSE PadStart(<<c>> \o s, w, c)

\* s.startsWith(p)
StartsWith(s, p) == Len(s) >= Len(p) /\ SubSeq(s, 1, Len(p)) = p

\* s.slice(k) for 0 <= k
Slice(s, k) == SubSeq(s, k + 1, Len(s))

\* s.slice(-k): the last k characters (the whole string when it is shorter)
SliceLast(s, k) == IF Len(s) <= k THEN s ELSE SubSeq(s, Len(s) - k + 1, Len(s))

IsSpace(c) == c \in {" ", "\t", "\r", "\n"}

RECURSIVE TrimStart(_)
TrimStart(s) ==
    IF s # << >> /\ IsSpace(s[1]) THEN TrimStart(Tail(s)) ELSE s

RECURSIVE TrimEnd(_)
TrimEnd(s) ==
    IF s # << >> /\ IsSpace(s[Len(s)]) THEN TrimEnd(SubSeq(s, 1, Len(s) - 1)) ELSE s

\* s.trim()
Trim(s) == TrimEnd(TrimStart(s))

\* s.split(/\r?\n/): the pieces between line breaks, at least one piece
RECURSIVE SplitFrom(_, _)
SplitFrom(s, piece) ==
    IF s = << >> THEN <<piece>>
    ELSE IF s[1] = "\n" THEN <<piece>> \o SplitFrom(Tail(s), << >>)
    ELSE IF s[1] = "\r" /\ Len(s) >= 2 /\ s[2] = "\n"
         THEN <<piece>> \o SplitFrom(Tail(Tail(s)), << >>)
    ELSE SplitFrom(Tail(s), Append(piece, s[1]))

SplitLines(s) == SplitFrom(s, << >>)

(***************************************************************************)
(* JavaScript objects and arrays.                                          *)
(***************************************************************************)
ObjKeys(o) == [i \in 1..Len(o) |-> o[i][1]]

ObjValues(o) == [i \in 1..Len(o) |-> o[i][2]]

KeySet(o) == {o[i][1] : i \in 1..Len(o)}

ObjHas(o, k) == k \in KeySet(o)

\* a name that every object parsed from JSON inherits from Object.prototype
InheritedName == <<"c", "o", "n", "s", "t", "r", "u", "c", "t", "o", "r">>

\* o[k] read as a condition: an own key holds a record, which is truthy, and
\* so is the function found under an inherited name
Truthy(o, k) == ObjHas(o, k) \/ k = InheritedName

ObjGet(o, k) == o[CHOOSE i \in 1..Len(o) : o[i][1] = k][2]

\* o[k] = v: an existing key keeps its place, a new key goes last
ObjSet(o, k, v) ==
    IF ObjHas(o, k)
    THEN [i \in 1..Len(o) |-> IF o[i][1] = k THEN <<k, v>> ELSE o[i]]
    ELSE Append(o, <<k, v>>)

\* a delete that removes nothing
ObjDeleteNothing(o, k) == o

\* delete o[k]
ObjDelete(o, k) == SelectSeq(o, LAMBDA e : e[1] # k)

Range(s) == {s[i] : i \in 1..Len(s)}

RECURSIVE Concat(_)
Concat(ss) == IF ss = << >> THEN << >> ELSE Head(ss) \o Concat(Tail(ss))

(***************************************************************************)
(* utils/db.ts                                                             *)
(***************************************************************************)
LFP9 == <<"L", "F", "P", "9">>

DefaultCfg ==
    [model |-> LFP9,
     batch |-> <<"0", "0", "1">>,
     modulesEnabled |-> [m1 |-> TRUE, m2 |-> TRUE, m3 |-> FALSE],
     productName |-> "NX100",
     variant |-> "Pro"]

EmptyDB == [packs |-> << >>, config |-> DefaultCfg]

\* the value of a property the JSON text does not hold (JSON.stringify drops a
\* property whose value is undefined); parsed back it reads as undefined
Absent == <<"undefined">>

\* `${v}` in a template literal
TemplateText(v) ==
    IF v = Absent THEN <<"u", "n", "d", "e", "f", "i", "n", "e", "d">> ELSE v

\* readDB, filesystem branch: the parsed content of DB_PATH.  A missing file is
\* created holding EmptyDB, which is the document Init starts from; every
\* document written by writeDB has packs, modulesEnabled, productName and
\* variant, so the defaulting of those fields changes nothing; model and batch
\* have no default and read as Absent when the text does not hold them.
readDB(f) == f

\* writeDB: DB_PATH then holds the whole document handed in
writeDB(db) == db

readConfig(f) == readDB(f).config

getAllModuleIds(db) ==
    UNION {KeySet(ObjValues(db.packs)[p].modules) : p \in 1..Len(db.packs)}

\* the <<pack, module, cell>> triples of the document in the order the three
\* nested loops of getAllCells visit them
ModuleEntries(packId, modules) ==
    Concat([m \in 1..Len(modules) |->
               [c \in 1..Len(modules[m][2]) |->
                   [cell |-> modules[m][2][c], pack |-> packId, module |-> modules[m][1]]]])

CellEntries(db) ==
    Concat([p \in 1..Len(db.packs) |->
               ModuleEntries(db.packs[p][1], db.packs[p][2].modules)])

\* getAllCells indexing the first module of each pack only
getAllCellsFirstModule(db) ==
    LET es == Concat([p \in 1..Len(db.packs) |->
                         ModuleEntries(db.packs[p][1],
                                       SubSeq(db.packs[p][2].modules, 1, 1))])
        first(c) == es[CHOOSE i \in 1..Len(es) :
                          /\ es[i].cell = c
                          /\ \A j \in 1..(i - 1) : es[j].cell # c]
    IN  [c \in {es[i].cell : i \in 1..Len(es)} |->
            [pack |-> first(c).pack, module |-> first(c).module]]

\* getAllCells: cell -> {pack, module} of the first entry holding the cell
getAllCells(db) ==
    LET es == CellEntries(db)
        first(c) == es[CHOOSE i \in 1..Len(es) :
                          /\ es[i].cell = c
                          /\ \A j \in 1..(i - 1) : es[j].cell # c]
    IN  [c \in {es[i].cell : i \in 1..Len(es)} |->
            [pack |-> first(c).pack, module |-> first(c).module]]

(***************************************************************************)
(* routes/packs.ts: helpers                                                *)
(***************************************************************************)
Undefined == [kind |-> "undefined"]

\* a request value that is a string
Str(s) == [kind |-> "string", v |-> s]

\* a request value that is an array of strings
Arr(a) == [kind |-> "array", v |-> a]

\* normalizeCells: a missing or empty value gives no cell; an array has every
\* entry trimmed and the empty ones dropped; a string is split into lines first
normalizeCells(input) ==
    LET clean(a) == SelectSeq([i \in 1..Len(a) |-> Trim(a[i])], LAMBDA s : s # << >>)
    IN  IF input.kind = "undefined" THEN << >>
        ELSE IF input.kind = "array" THEN clean(input.v)
        ELSE IF input.v = << >> THEN << >>
        ELSE clean(SplitLines(input.v))

\* duplicatesInArray: the entries met again after a first occurrence, each once,
\* in the order of their second occurrence
RECURSIVE DupScan(_, _, _)
DupScan(arr, seen, dup) ==
    IF arr = << >> THEN dup
    ELSE IF Head(arr) \in seen
         THEN DupScan(Tail(arr), seen,
                      IF Head(arr) \in Range(dup) THEN dup ELSE Append(dup, Head(arr)))
         ELSE DupScan(Tail(arr), seen \cup {Head(arr)}, dup)

\* duplicatesInArray collecting into an array instead of a Set
RECURSIVE DupScanRepeats(_, _, _)
DupScanRepeats(arr, seen, dup) ==
    IF arr = << >> THEN dup
    ELSE IF Head(arr) \in seen
         THEN DupScanRepeats(Tail(arr), seen, Append(dup, Head(arr)))
         ELSE DupScanRepeats(Tail(arr), seen \cup {Head(arr)}, dup)

duplicatesInArrayRepeats(arr) == DupScanRepeats(arr, {}, << >>)

duplicatesInArray(arr) == DupScan(arr, {}, << >>)

\* the while loop without its used.has(cand) test
RECURSIVE AllocLoopNoSkip(_, _, _, _, _)
AllocLoopNoSkip(used, prefix, n, out, count) ==
    IF Len(out) >= count THEN out
    ELSE AllocLoopNoSkip(used, prefix, n + 1,
                         Append(out, prefix \o PadStart(NumToString(n), 5, "0")), count)

\* the while loop of allocateModuleIds: candidates n, n+1, ... under the prefix,
\* those already used skipped, until count serials are collected
RECURSIVE AllocLoop(_, _, _, _, _)
AllocLoop(used, prefix, n, out, count) ==
    IF Len(out) >= count THEN out
    ELSE LET cand == prefix \o PadStart(NumToString(n), 5, "0")
         IN  AllocLoop(used, prefix, n + 1,
                       IF cand \notin used THEN Append(out, cand) ELSE out, count)

ModulePrefix(t) ==
    <<"M", "L", "F", "P">> \o PadStart(NumToString(t.date), 2, "0")
                           \o SliceLast(NumToString(t.year), 2)

\* the greatest 5-digit suffix among the used serials under the prefix, else 0
RECURSIVE MaxSuffix(_, _, _)
MaxSuffix(ids, prefix, width) ==
    IF ids = {} THEN 0
    ELSE LET id == CHOOSE x \in ids : TRUE
             rest == MaxSuffix(ids \ {id}, prefix, width)
             tail == Slice(id, Len(prefix))
         IN  IF StartsWith(id, prefix) /\ IsDigits(tail, width) /\ ParseInt(tail) > rest
             THEN ParseInt(tail)
             ELSE rest

allocateModuleIds(db, count, t) ==
    LET prefix == ModulePrefix(t)
        used == getAllModuleIds(db)
        max == MaxSuffix({id \in used : Len(id) = Len(prefix) + 5}, prefix, 5)
        n == IF max + 1 > 1 THEN max + 1 ELSE 1
    IN  AllocLoop(used, prefix, n, << >>, count)

PackPrefix(cfg, t) ==
    <<"R", "I", "V">> \o SliceLast(NumToString(t.year), 2)
                      \o PadStart(NumToString(t.month), 2, "0")
                      \o TemplateText(cfg.model)
                      \o PadStart(IF cfg.batch = Absent \/ cfg.batch = << >>
                                     THEN <<"0", "0", "1">> ELSE cfg.batch,
                                  3, "0")

\* nextPackSerial: the configuration is read from the store, not from db
nextPackSerial(db, cfg, t) ==
    LET prefix == PackPrefix(cfg, t)
        maxUnit == MaxSuffix(KeySet(db.packs), prefix, 4)
        next == IF maxUnit + 1 # 0 THEN maxUnit + 1 ELSE 1
    IN  prefix \o PadStart(NumToString(next), 4, "0")

(***************************************************************************)
(* routes/packs.ts: the allocation shared by generatePack and savePackOnly *)
(* (the two handlers hold the same text from readDB to allocateModuleIds). *)
(* body holds the request fields after pickCells resolved the field names. *)
(* created_at and created_by are stored but never read back by any check   *)
(* and are left out of the pack record.                                    *)
(***************************************************************************)
ErrRequired(k) ==
    [status |-> 400,
     error |-> IF k = 1 THEN "Module 1 cell list is required"
               ELSE IF k = 2 THEN "Module 2 cell list is required"
               ELSE "Module 3 cell list is required"]

ErrDuplicates(d1, d2, d3) ==
    [status |-> 409, error |-> "Duplicate cells within module",
     module1_duplicates |-> d1, module2_duplicates |-> d2, module3_duplicates |-> d3]

ErrExists == [status |-> 409, error |-> "Pack already exists", exists |-> TRUE]

ErrConflicts(conflicts) ==
    [status |-> 409, error |-> "Duplicate cells in DB", conflicts |-> conflicts]

ErrCodes == [status |-> 500, error |-> "Failed to generate codes"]

ErrNotFound == [status |-> 404, error |-> "Not found"]

\* res.json({ ok: true })
OkDeleted == [status |-> 200, error |-> "", ok |-> TRUE]

\* res.json({ ok: true, pack }): no error field; "" stands for its absence
Ok(pack) == [status |-> 200, error |-> "", ok |-> TRUE, pack |-> pack]

\* pack_serial && pack_serial.trim().length ? pack_serial.trim() : nextPackSerial(db)
\* a serial test that does not trim: a blank pack_serial counts as a serial
HasSerialUntrimmed(body) ==
    /\ body.pack_serial.kind = "string"
    /\ body.pack_serial.v # << >>

HasSerial(body) ==
    /\ body.pack_serial.kind = "string"
    /\ body.pack_serial.v # << >>
    /\ Len(Trim(body.pack_serial.v)) > 0

FinalPackSerial(f, db, body, t) ==
    IF HasSerial(body) THEN Trim(body.pack_serial.v)
    ELSE nextPackSerial(db, readConfig(f), t)

RequiredCount(cfg) ==
    LET enabled == cfg.modulesEnabled
    IN  IF enabled.m1 /\ enabled.m2 /\ enabled.m3 THEN 3
        ELSE IF enabled.m1 /\ enabled.m2 THEN 2
        ELSE 1

\* desiredCount >= k && mk.length === 0, for k = 1, 2, 3 in turn: the first
\* module whose list is required and missing, 0 when none is
RequiredMissing(desiredCount, m1, m2, m3) ==
    IF desiredCount >= 1 /\ Len(m1) = 0 THEN 1
    ELSE IF desiredCount >= 2 /\ Len(m2) = 0 THEN 2
    ELSE IF desiredCount >= 3 /\ Len(m3) = 0 THEN 3
    ELSE 0

\* the existence check with the overwrite flag read the wrong way round
PackExistsFlagInverted(db, finalPackSerial, overwrite) ==
    Truthy(db.packs, finalPackSerial) /\ overwrite

\* db.packs[finalPackSerial] && !overwrite
PackExists(db, finalPackSerial, overwrite) ==
    Truthy(db.packs, finalPackSerial) /\ ~overwrite

\* the conflicts list: one record per submitted cell found in the index, in
\* the order m1, m2, m3
Conflicts(db, cells) ==
    LET allCells == getAllCells(db)
        hits == SelectSeq(cells, LAMBDA c : c \in DOMAIN allCells)
    IN  [i \in 1..Len(hits) |->
            [cell |-> hits[i], pack |-> allCells[hits[i]].pack,
             module |-> allCells[hits[i]].module]]

\* modules[ids[idx]] = m for each non-empty list, idx counting the lists stored
BuildModules(ids, m1, m2, m3) ==
    LET o1 == IF Len(m1) > 0 THEN ObjSet(<< >>, ids[1], m1) ELSE << >>
        i1 == IF Len(m1) > 0 THEN 1 ELSE 0
        o2 == IF Len(m2) > 0 THEN ObjSet(o1, ids[i1 + 1], m2) ELSE o1
        i2 == IF Len(m2) > 0 THEN i1 + 1 ELSE i1
    IN  IF Len(m3) > 0 THEN ObjSet(o2, ids[i2 + 1], m3) ELSE o2

\* the checks with the collision check moved before the existence check
AllocationCollisionFirst(f, body, t) ==
    LET db == readDB(f)
        finalPackSerial == FinalPackSerial(f, db, body, t)
        requiredCount == RequiredCount(readConfig(f))
        m1 == normalizeCells(body.module1_cells)
        m2 == normalizeCells(body.module2_cells)
        m3 == normalizeCells(body.module3_cells)
        providedCount == (IF Len(m1) > 0 THEN 1 ELSE 0) + (IF Len(m2) > 0 THEN 1 ELSE 0)
                            + (IF Len(m3) > 0 THEN 1 ELSE 0)
        desiredCount == IF providedCount > 0 THEN providedCount ELSE requiredCount
        dup1 == duplicatesInArray(m1)
        dup2 == duplicatesInArray(m2)
        dup3 == duplicatesInArray(m3)
        conflicts == Conflicts(db, m1 \o m2 \o m3)
        reject(res) == [rejected |-> TRUE, res |-> res, db |-> db]
        missing == RequiredMissing(desiredCount, m1, m2, m3)
    IN  IF missing # 0 THEN reject(ErrRequired(missing))
        ELSE IF Len(dup1) > 0 \/ Len(dup2) > 0 \/ Len(dup3) > 0
             THEN reject(ErrDuplicates(dup1, dup2, dup3))
        ELSE IF Len(conflicts) > 0 THEN reject(ErrConflicts(conflicts))
        ELSE IF PackExists(db, finalPackSerial, body.overwrite) THEN reject(ErrExists)
        ELSE [rejected |-> FALSE, db |-> db, finalPackSerial |-> finalPackSerial,
              ids |-> allocateModuleIds(db, desiredCount, t),
              modules |-> BuildModules(allocateModuleIds(db, desiredCount, t), m1, m2, m3)]

\* the checks in the order of the code; the first that fails is the response
Allocation(f, body, t) ==
    LET db == readDB(f)
        finalPackSerial == FinalPackSerial(f, db, body, t)
        requiredCount == RequiredCount(readConfig(f))
        m1 == normalizeCells(body.module1_cells)
        m2 == normalizeCells(body.module2_cells)
        m3 == normalizeCells(body.module3_cells)
        providedCount == (IF Len(m1) > 0 THEN 1 ELSE 0) + (IF Len(m2) > 0 THEN 1 ELSE 0)
                            + (IF Len(m3) > 0 THEN 1 ELSE 0)
        desiredCount == IF providedCount > 0 THEN providedCount ELSE requiredCount
        dup1 == duplicatesInArray(m1)
        dup2 == duplicatesInArray(m2)
        dup3 == duplicatesInArray(m3)
        conflicts == Conflicts(db, m1 \o m2 \o m3)
        reject(res) == [rejected |-> TRUE, res |-> res, db |-> db]
        missing == RequiredMissing(desiredCount, m1, m2, m3)
    IN  IF missing # 0 THEN reject(ErrRequired(missing))
        ELSE IF Len(dup1) > 0 \/ Len(dup2) > 0 \/ Len(dup3) > 0
             THEN reject(ErrDuplicates(dup1, dup2, dup3))
        ELSE IF PackExists(db, finalPackSerial, body.overwrite) THEN reject(ErrExists)
        ELSE IF Len(conflicts) > 0 THEN reject(ErrConflicts(conflicts))
        ELSE [rejected |-> FALSE, db |-> db, finalPackSerial |-> finalPackSerial,
              ids |-> allocateModuleIds(db, desiredCount, t),
              modules |-> BuildModules(allocateModuleIds(db, desiredCount, t), m1, m2, m3)]

\* generateCodes: the label references of a bundle, one per module id and master
CodeType(body) == IF body.code_type = "" THEN "barcode" ELSE body.code_type

ModuleUrl(type, id) == <<"codes", type, id>>

MasterUrl(type, packId) == <<"codes", type, packId, "MASTER">>

\* codes of generatePack: master first, then one entry per module stored
BundleCodes(type, packId, ids) ==
    <<(<<"master", MasterUrl(type, packId)>>)>>
        \o [i \in 1..Len(ids) |-> <<ids[i], ModuleUrl(type, ids[i])>>]

PackDoc(serial, modules, codes) ==
    [pack_serial |-> serial, modules |-> modules, codes |-> codes]

\* db.packs[finalPackSerial] = doc
PutPack(db, serial, doc) == [db EXCEPT !.packs = ObjSet(@, serial, doc)]

(***************************************************************************)
(* The requests submitted.                                                 *)
(***************************************************************************)
CellA == <<"A">>
CellB == <<"B">>
CellC == <<"C">>

Today == [year |-> 2026, month |-> 11, date |-> 3]

PackSerialInputs == {Undefined, Str(<<"P", "1", " ">>)}

Cell1Inputs ==
    {Undefined,
     Arr(<<CellA>>),
     Arr(<<(<<" ">>), <<" ", "B">> >>),
     Arr(<<CellB, CellB>>)}

Cell2Inputs ==
    {Undefined,
     Arr(<<CellA>>),
     Str(<<"A", "\n", " ", "C", "\r", "\n">>)}

Cell3Inputs == {Undefined, Arr(<<CellC>>)}

AllocBodies ==
    [pack_serial : PackSerialInputs, overwrite : BOOLEAN, code_type : {""},
     module1_cells : Cell1Inputs, module2_cells : Cell2Inputs, module3_cells : Cell3Inputs]

Idle == [phase |-> "idle"]

Slots == 1..MaxInFlight

(***************************************************************************)
(* The handlers.  A handler runs to completion, or to its await, in one    *)
(* step; the response stays in the slot until the client has taken it.     *)
(***************************************************************************)
Responded(op, body, db, res) ==
    [phase |-> "responded", op |-> op, body |-> body, db |-> db, res |-> res]

\* the unit counter of a serial given by nextPackSerial under the current prefix
UnitOf(serial, f, t) == ParseInt(Slice(serial, Len(PackPrefix(readConfig(f), t))))

\* the serial counter of a module serial allocated today
SeqOf(id, t) == ParseInt(Slice(id, Len(ModulePrefix(t))))

\* requests are submitted only while the document and its counters stay small
Submittable(a) ==
    IF a.rejected THEN TRUE
    ELSE /\ Len(a.db.packs) < MaxPacks \/ ObjHas(a.db.packs, a.finalPackSerial)
         /\ \A i \in 1..Len(a.ids) : SeqOf(a.ids[i], now) <= MaxSeq

\* generatePack storing the pack before its await generateCodes
GeneratePackWriteFirst(r, body) ==
    LET a == Allocation(file, body, now)
    IN  /\ reqs[r].phase = "idle"
        /\ Submittable(a)
        /\ IF a.rejected
           THEN /\ reqs' = [reqs EXCEPT ![r] = Responded("generatePack", body, a.db, a.res)]
                /\ UNCHANGED file
           ELSE /\ reqs' = [reqs EXCEPT ![r] =
                               [phase |-> "suspended", op |-> "generatePack", body |-> body,
                                db |-> a.db, finalPackSerial |-> a.finalPackSerial,
                                ids |-> a.ids, modules |-> a.modules]]
                /\ file' = writeDB(PutPack(a.db, a.finalPackSerial,
                                           PackDoc(a.finalPackSerial, a.modules, << >>)))
        /\ UNCHANGED <<now, prevAuto, call, remote>>

\* generatePack up to its await generateCodes
GeneratePack(r, body) ==
    LET a == Allocation(file, body, now)
    IN  /\ reqs[r].phase = "idle"
        /\ Submittable(a)
        /\ reqs' = [reqs EXCEPT ![r] =
                       IF a.rejected
                       THEN Responded("generatePack", body, a.db, a.res)
                       ELSE [phase |-> "suspended", op |-> "generatePack", body |-> body,
                             db |-> a.db, finalPackSerial |-> a.finalPackSerial,
                             ids |-> a.ids, modules |-> a.modules]]
        /\ UNCHANGED <<file, now, prevAuto, call, remote>>

\* generatePack putting its pack into the document as it is after the await
GeneratePackResumeMerging(r) ==
    LET s == reqs[r]
        doc == PackDoc(s.finalPackSerial, s.modules,
                       BundleCodes(CodeType(s.body), s.finalPackSerial, s.ids))
    IN  /\ s.phase = "suspended"
        /\ s.op = "generatePack"
        /\ file' = writeDB(PutPack(readDB(file), s.finalPackSerial, doc))
        /\ reqs' = [reqs EXCEPT ![r] = Responded(s.op, s.body, s.db, Ok(doc))]
        /\ prevAuto' = IF HasSerial(s.body) THEN <<0, 0>>
                       ELSE <<prevAuto[2], UnitOf(s.finalPackSerial, file, now)>>
        /\ UNCHANGED <<now, call, remote>>

\* generatePack after generateCodes resolved: the pack is put into the
\* document read before the await, and that document is written
GeneratePackResume(r) ==
    LET s == reqs[r]
        doc == PackDoc(s.finalPackSerial, s.modules,
                       BundleCodes(CodeType(s.body), s.finalPackSerial, s.ids))
    IN  /\ s.phase = "suspended"
        /\ s.op = "generatePack"
        /\ file' = writeDB(PutPack(s.db, s.finalPackSerial, doc))
        /\ reqs' = [reqs EXCEPT ![r] = Responded(s.op, s.body, s.db, Ok(doc))]
        /\ prevAuto' = IF HasSerial(s.body) THEN <<0, 0>>
                       ELSE <<prevAuto[2], UnitOf(s.finalPackSerial, file, now)>>
        /\ UNCHANGED <<now, call, remote>>

\* generatePack after generateCodes rejected: the catch branch, nothing written
GeneratePackFail(r) ==
    LET s == reqs[r]
    IN  /\ s.phase = "suspended"
        /\ s.op = "generatePack"
        /\ reqs' = [reqs EXCEPT ![r] = Responded(s.op, s.body, s.db, ErrCodes)]
        /\ UNCHANGED <<file, now, prevAuto, call, remote>>

\* savePackOnly storing an empty record under the serial before it validates
SavePackOnlyWriteFirst(r, body) ==
    LET a == Allocation(file, body, now)
        serial == FinalPackSerial(file, readDB(file), body, now)
        doc == PackDoc(a.finalPackSerial, a.modules, <<(<<"master", << >> >>)>>)
    IN  /\ reqs[r].phase = "idle"
        /\ Submittable(a)
        /\ IF a.rejected
           THEN /\ reqs' = [reqs EXCEPT ![r] = Responded("savePackOnly", body, a.db, a.res)]
                /\ file' = writeDB(PutPack(a.db, serial, PackDoc(serial, << >>, << >>)))
                /\ UNCHANGED prevAuto
           ELSE /\ file' = writeDB(PutPack(a.db, a.finalPackSerial, doc))
                /\ reqs' = [reqs EXCEPT ![r] = Responded("savePackOnly", body, a.db, Ok(doc))]
                /\ prevAuto' = IF HasSerial(body) THEN <<0, 0>>
                               ELSE <<prevAuto[2], UnitOf(a.finalPackSerial, file, now)>>
        /\ UNCHANGED <<now, call, remote>>

\* savePackOnly: no await, the whole handler is one step
SavePackOnly(r, body) ==
    LET a == Allocation(file, body, now)
        doc == PackDoc(a.finalPackSerial, a.modules, <<(<<"master", << >> >>)>>)
    IN  /\ reqs[r].phase = "idle"
        /\ Submittable(a)
        /\ IF a.rejected
           THEN /\ reqs' = [reqs EXCEPT ![r] = Responded("savePackOnly", body, a.db, a.res)]
                /\ UNCHANGED <<file, prevAuto>>
           ELSE /\ file' = writeDB(PutPack(a.db, a.finalPackSerial, doc))
                /\ reqs' = [reqs EXCEPT ![r] = Responded("savePackOnly", body, a.db, Ok(doc))]
                /\ prevAuto' = IF HasSerial(body) THEN <<0, 0>>
                               ELSE <<prevAuto[2], UnitOf(a.finalPackSerial, file, now)>>
        /\ UNCHANGED <<now, call, remote>>

\* deletePack: delete of a name that is no own key removes nothing
deletePack(r, id) ==
    LET db == readDB(file)
    IN  /\ reqs[r].phase = "idle"
        /\ IF ~Truthy(db.packs, id)
           THEN /\ reqs' = [reqs EXCEPT ![r] =
                               Responded("deletePack", [id |-> id], db, ErrNotFound)]
                /\ UNCHANGED <<file, prevAuto>>
           ELSE /\ file' = writeDB([db EXCEPT !.packs = ObjDelete(@, id)])
                /\ reqs' = [reqs EXCEPT ![r] =
                               Responded("deletePack", [id |-> id], db, OkDeleted)]
                /\ prevAuto' = <<0, 0>>
        /\ UNCHANGED <<now, call, remote>>

\* the client takes the response; the slot is free for the next request
Deliver(r) ==
    /\ reqs[r].phase = "responded"
    /\ reqs' = [reqs EXCEPT ![r] = Idle]
    /\ UNCHANGED <<file, now, prevAuto, call, remote>>

NoCall == [fn |-> "none"]

Init ==
    /\ file = EmptyDB
    /\ now = Today
    /\ reqs = [r \in Slots |-> Idle]
    /\ prevAuto = <<0, 0>>
    /\ call = NoCall
    /\ remote = [configured |-> FALSE]

\* the serials a delete is asked for: every pack of the document and one absent
DeleteInputs == KeySet(file.packs) \cup {<<"P", "1">>}

\* requests served one at a time: slot 1 alone
Next ==
    \/ \E body \in AllocBodies : GeneratePack(1, body)
    \/ GeneratePackResume(1)
    \/ GeneratePackFail(1)
    \/ \E body \in AllocBodies : SavePackOnly(1, body)
    \/ \E id \in DeleteInputs : deletePack(1, id)
    \/ Deliver(1)

Spec == Init /\ [][Next]_vars

(***************************************************************************)
(* SchemeSpec: requests served one at a time, the serials submitted        *)
(* including one in the format of the scheme at its last 4-digit counter.  *)
(***************************************************************************)
Serial9999 == PackPrefix(DefaultCfg, Today) \o <<"9", "9", "9", "9">>

SchemeBodies ==
    [pack_serial : {Undefined, Str(Serial9999)}, overwrite : BOOLEAN, code_type : {""},
     module1_cells : {Arr(<<CellA>>), Arr(<<CellB>>), Arr(<<CellC>>)},
     module2_cells : {Undefined}, module3_cells : {Undefined}]

SchemeNext ==
    \/ \E body \in SchemeBodies : GeneratePack(1, body)
    \/ GeneratePackResume(1)
    \/ GeneratePackFail(1)
    \/ \E body \in SchemeBodies : SavePackOnly(1, body)
    \/ \E id \in DeleteInputs : deletePack(1, id)
    \/ Deliver(1)

SchemeSpec == Init /\ [][SchemeNext]_vars

(***************************************************************************)
(* ConcSpec: one request per slot and no more, so that a request may be    *)
(* handled while another is suspended at its await.                        *)
(***************************************************************************)
ConcNext ==
    \/ \E r \in Slots, body \in AllocBodies : GeneratePack(r, body)
    \/ \E r \in Slots : GeneratePackResume(r)
    \/ \E r \in Slots : GeneratePackFail(r)
    \/ \E r \in Slots, body \in AllocBodies : SavePackOnly(r, body)

ConcSpec == Init /\ [][ConcNext]_vars

(***************************************************************************)
(* FnSpec: the pure functions applied to arguments drawn from bounded      *)
(* sets.  Any document with a packs object is accepted by uploadDB, and    *)
(* updatePack stores any modules object, so the documents drawn here are   *)
(* documents the store can hold.                                           *)
(***************************************************************************)
SeqsUpTo(S, n) == UNION {[1..k -> S] : k \in 0..n}

SubsetsUpTo(S, n) == {T \in SUBSET S : Cardinality(T) <= n}

RECURSIVE SetToSeq(_)
SetToSeq(S) ==
    IF S = {} THEN << >>
    ELSE LET x == CHOOSE y \in S : TRUE IN <<x>> \o SetToSeq(S \ {x})

LFP6 == <<"L", "F", "P", "6">>

PackKey(tail) == PackPrefix(DefaultCfg, Today) \o tail

\* pack serials under the current prefix (well formed, at and past the last
\* 4-digit counter, too short, not numeric), under another model, and free-form
PackKeyInputs ==
    {PackKey(<<"0", "0", "0", "1">>),
     PackKey(<<"9", "9", "9", "8">>),
     PackKey(<<"9", "9", "9", "9">>),
     PackKey(<<"1", "0", "0", "0", "0">>),
     PackKey(<<"1", "2">>),
     PackKey(<<"0", "0", "7", "x">>),
     PackPrefix([DefaultCfg EXCEPT !.model = LFP6], Today) \o <<"0", "0", "0", "5">>,
     <<"P", "1">>}

ModuleKey(tail) == ModulePrefix(Today) \o tail

\* module serials under today's prefix (well formed, at and past the last
\* 5-digit counter, too short, not numeric) and under another day's prefix
ModuleKeyInputs ==
    {ModuleKey(<<"0", "0", "0", "0", "1">>),
     ModuleKey(<<"0", "0", "0", "0", "2">>),
     ModuleKey(<<"9", "9", "9", "9", "9">>),
     ModuleKey(<<"1", "0", "0", "0", "0", "0">>),
     ModuleKey(<<"0", "0", "0", "3">>),
     ModuleKey(<<"0", "0", "0", "0", "x">>),
     ModulePrefix([Today EXCEPT !.date = 4]) \o <<"0", "0", "0", "0", "9">>}

NoCodes == <<(<<"master", << >> >>)>>

\* a document whose packs have the given serials
DocWithPacks(keys) ==
    [packs |-> [i \in 1..Cardinality(keys) |->
                   <<SetToSeq(keys)[i], PackDoc(SetToSeq(keys)[i], << >>, NoCodes)>>],
     config |-> DefaultCfg]

\* a document of one pack whose modules have the given serials
DocWithModules(ids) ==
    [packs |-> <<(<<(<<"P", "1">>),
                    PackDoc(<<"P", "1">>,
                            [i \in 1..Cardinality(ids) |-> <<SetToSeq(ids)[i], << >> >>],
                            NoCodes)>>)>>,
     config |-> DefaultCfg]

\* the document after P1 was saved with the one cell A
DocP1A ==
    [packs |-> <<(<<(<<"P", "1">>),
                    PackDoc(<<"P", "1">>,
                            <<(<<ModuleKey(<<"0", "0", "0", "0", "1">>), <<CellA>> >>)>>,
                            NoCodes)>>)>>,
     config |-> DefaultCfg]

FnCellInputs == {Undefined} \cup {Arr(a) : a \in SeqsUpTo({CellA, CellB}, MaxLen)}

FnBodies ==
    [pack_serial : PackSerialInputs, overwrite : BOOLEAN, code_type : {""},
     module1_cells : FnCellInputs, module2_cells : FnCellInputs,
     module3_cells : Cell3Inputs]

FnCalls ==
    {[fn |-> "duplicatesInArray", arr |-> a, done |-> FALSE, ret |-> << >>] :
        a \in SeqsUpTo({CellA, CellB, CellC}, MaxLen)}
    \cup {[fn |-> "nextPackSerial", db |-> DocWithPacks(K), done |-> FALSE, ret |-> << >>] :
        K \in SubsetsUpTo(PackKeyInputs, MaxKeys)}
    \cup {[fn |-> "allocateModuleIds", db |-> DocWithModules(K), count |-> c,
           done |-> FALSE, ret |-> << >>] :
        K \in SubsetsUpTo(ModuleKeyInputs, MaxKeys), c \in 1..3}
    \cup {[fn |-> "Allocation", f |-> d, body |-> b, done |-> FALSE, ret |-> << >>] :
        d \in {EmptyDB, DocP1A}, b \in FnBodies}

FnInit ==
    /\ file = EmptyDB
    /\ now = Today
    /\ reqs = [r \in Slots |-> Idle]
    /\ prevAuto = <<0, 0>>
    /\ call \in FnCalls
    /\ remote = [configured |-> FALSE]

Return(fn, ret) ==
    /\ call.fn = fn
    /\ ~call.done
    /\ call' = [call EXCEPT !.done = TRUE, !.ret = ret]
    /\ UNCHANGED <<file, now, reqs, prevAuto, remote>>

ApplyDuplicatesInArray == Return("duplicatesInArray", duplicatesInArray(call.arr))

ApplyNextPackSerial ==
    Return("nextPackSerial", nextPackSerial(call.db, readConfig(call.db), now))

ApplyAllocateModuleIds ==
    Return("allocateModuleIds", allocateModuleIds(call.db, call.count, now))

ApplyAllocation == Return("Allocation", Allocation(call.f, call.body, now))

FnNext ==
    \/ ApplyDuplicatesInArray
    \/ ApplyNextPackSerial
    \/ ApplyAllocateModuleIds
    \/ ApplyAllocation

FnSpec == FnInit /\ [][FnNext]_vars

(***************************************************************************)
(* HistorySpec: requests served one at a time, each response kept in its   *)
(* slot until taken, so that a response can be set against an earlier one; *)
(* the clock may pass into the next month.                                 *)
(***************************************************************************)
\* res.json({ next: nextPackSerial(db) })
OkNext(serial) == [status |-> 200, error |-> "", next |-> serial]

\* a preview that also stores an empty record under the serial it answers
nextSerialPreviewReserving(r) ==
    LET db == readDB(file)
        serial == nextPackSerial(db, readConfig(file), now)
    IN  /\ reqs[r].phase = "idle"
        /\ reqs' = [reqs EXCEPT ![r] =
                       Responded("nextSerialPreview", [clock |-> now], db, OkNext(serial))]
        /\ file' = writeDB(PutPack(db, serial, PackDoc(serial, << >>, << >>)))
        /\ UNCHANGED <<now, prevAuto, call, remote>>

\* nextSerialPreview: the request has no input but the clock nextPackSerial reads
nextSerialPreview(r) ==
    LET db == readDB(file)
    IN  /\ reqs[r].phase = "idle"
        /\ reqs' = [reqs EXCEPT ![r] =
                       Responded("nextSerialPreview", [clock |-> now], db,
                                 OkNext(nextPackSerial(db, readConfig(file), now)))]
        /\ UNCHANGED <<file, now, prevAuto, call, remote>>

\* the same day of the next month
NextMonth == [year |-> 2026, month |-> 12, date |-> 3]

\* new Date() moves on
Tick ==
    /\ now = Today
    /\ now' = NextMonth
    /\ UNCHANGED <<file, reqs, prevAuto, call, remote>>

HistoryBodies ==
    [pack_serial : {Undefined}, overwrite : {FALSE}, code_type : {""},
     module1_cells : {Arr(<<CellA>>), Arr(<<CellB>>)},
     module2_cells : {Undefined}, module3_cells : {Undefined}]

\* the slot of the earlier response and the slot of the later one
HistorySlots == {1, 2}

HistoryNext ==
    \/ \E r \in HistorySlots, body \in HistoryBodies : SavePackOnly(r, body)
    \/ \E r \in HistorySlots, id \in KeySet(file.packs) : deletePack(r, id)
    \/ \E r \in HistorySlots : nextSerialPreview(r)
    \/ \E r \in HistorySlots : Deliver(r)
    \/ Tick

HistorySpec == Init /\ [][HistoryNext]_vars

(***************************************************************************)
(* OpsSpec: the handlers that work on a pack named by the request          *)
(* (updatePack, deletePack, regenerateCodes, generateMasterOnly) and       *)
(* search, served one at a time on documents built by savePackOnly.        *)
(***************************************************************************)
ErrPackNotFound == [status |-> 404, error |-> "Pack not found"]

ErrSerialRequired == [status |-> 400, error |-> "pack_serial is required"]

ErrMissingModules == [status |-> 400, error |-> "Pack missing modules"]

ErrRegenerate == [status |-> 500, error |-> "Failed to regenerate codes"]

ErrMaster == [status |-> 500, error |-> "Failed to generate master code"]

\* res.json({ ok: true, master: bundle.masterUrl, pack })
OkMaster(url, pack) == [status |-> 200, error |-> "", ok |-> TRUE, master |-> url, pack |-> pack]

\* updatePack: the modules of the request replace those of the pack, unchecked.
\* Under an inherited name pack is a function: it becomes a property of
\* db.packs that JSON.stringify leaves out, of the file and of the response.
updatePack(r, id, modules) ==
    LET db == readDB(file)
        pack == [ObjGet(db.packs, id) EXCEPT !.modules = modules]
    IN  /\ reqs[r].phase = "idle"
        /\ IF ~Truthy(db.packs, id)
           THEN /\ reqs' = [reqs EXCEPT ![r] =
                               Responded("updatePack", [id |-> id, modules |-> modules],
                                         db, ErrNotFound)]
                /\ UNCHANGED <<file, prevAuto>>
           ELSE IF ~ObjHas(db.packs, id)
           THEN /\ reqs' = [reqs EXCEPT ![r] =
                               Responded("updatePack", [id |-> id, modules |-> modules],
                                         db, OkDeleted)]
                /\ file' = writeDB(db)
                /\ prevAuto' = <<0, 0>>
           ELSE /\ reqs' = [reqs EXCEPT ![r] =
                               Responded("updatePack", [id |-> id, modules |-> modules],
                                         db, Ok(pack))]
                /\ file' = writeDB(PutPack(db, id, pack))
                /\ prevAuto' = <<0, 0>>
        /\ UNCHANGED <<now, call, remote>>

\* the first pack, in the order of Object.entries, that has module q of its own
FirstWithModule(db, q) ==
    db.packs[CHOOSE p \in 1..Len(db.packs) :
                /\ ObjHas(db.packs[p][2].modules, q)
                /\ \A j \in 1..(p - 1) : ~ObjHas(db.packs[j][2].modules, q)]

\* the first <<pack, module>> entry, in the order of the nested loops, whose
\* cell list includes q
FirstWithCell(db, q) ==
    LET es == CellEntries(db)
    IN  es[CHOOSE i \in 1..Len(es) :
              /\ es[i].cell = q
              /\ \A j \in 1..(i - 1) : es[j].cell # q]

\* res.json({ result: null })
NoResult == [status |-> 200, error |-> "", type |-> "none"]

\* res.json({ type: "pack", pack: db.packs[q] }); a function found under an
\* inherited name is left out of the JSON
PackResult(db, q) ==
    IF ObjHas(db.packs, q)
    THEN [status |-> 200, error |-> "", type |-> "pack", pack |-> ObjGet(db.packs, q)]
    ELSE [status |-> 200, error |-> "", type |-> "pack"]

ModuleResult(db, q) ==
    [status |-> 200, error |-> "", type |-> "module", moduleId |-> q,
     packId |-> FirstWithModule(db, q)[1], pack |-> FirstWithModule(db, q)[2]]

CellResult(db, q) ==
    [status |-> 200, error |-> "", type |-> "cell", cell |-> q,
     packId |-> FirstWithCell(db, q).pack, moduleId |-> FirstWithCell(db, q).module,
     pack |-> ObjGet(db.packs, FirstWithCell(db, q).pack)]

\* the answer of search to the query string as sent
SearchResult(db, query) ==
    LET q == IF query.kind = "string" THEN Trim(query.v) ELSE << >>
    IN  IF q = << >> THEN NoResult
        ELSE IF Truthy(db.packs, q) THEN PackResult(db, q)
        ELSE IF \E p \in 1..Len(db.packs) : ObjHas(db.packs[p][2].modules, q)
             THEN ModuleResult(db, q)
        ELSE IF \E i \in 1..Len(CellEntries(db)) : CellEntries(db)[i].cell = q
             THEN CellResult(db, q)
        ELSE NoResult

search(r, query) ==
    LET db == readDB(file)
    IN  /\ reqs[r].phase = "idle"
        /\ reqs' = [reqs EXCEPT ![r] =
                       Responded("search", [q |-> query], db, SearchResult(db, query))]
        /\ UNCHANGED <<file, now, prevAuto, call, remote>>

\* regenerateCodes and generateMasterOnly up to their await generateCodes.
\* pack_serial is used as sent, untrimmed; a missing or empty one is refused.
Relabel(r, op, serial) ==
    LET db == readDB(file)
        body == [pack_serial |-> serial, code_type |-> ""]
    IN  /\ reqs[r].phase = "idle"
        /\ reqs' = [reqs EXCEPT ![r] =
                       IF serial.kind # "string" \/ serial.v = << >>
                       THEN Responded(op, body, db, ErrSerialRequired)
                       ELSE IF ~Truthy(db.packs, serial.v)
                       THEN Responded(op, body, db, ErrPackNotFound)
                       ELSE IF Len(ObjGet(db.packs, serial.v).modules) < 1
                       THEN Responded(op, body, db, ErrMissingModules)
                       ELSE [phase |-> "suspended", op |-> op, body |-> body, db |-> db,
                             ids |-> ObjKeys(ObjGet(db.packs, serial.v).modules)]]
        /\ UNCHANGED <<file, now, prevAuto, call, remote>>

regenerateCodes(r, serial) == Relabel(r, "regenerateCodes", serial)

generateMasterOnly(r, serial) == Relabel(r, "generateMasterOnly", serial)

\* regenerateCodes after generateCodes resolved: all codes of the pack are
\* replaced in the document read before the await, and that document is written
regenerateCodesResume(r) ==
    LET s == reqs[r]
        id == s.body.pack_serial.v
        pack == [ObjGet(s.db.packs, id) EXCEPT
                    !.codes = BundleCodes(CodeType(s.body), id, s.ids)]
    IN  /\ s.phase = "suspended"
        /\ s.op = "regenerateCodes"
        /\ file' = writeDB(PutPack(s.db, id, pack))
        /\ reqs' = [reqs EXCEPT ![r] = Responded(s.op, s.body, s.db, Ok(pack))]
        /\ prevAuto' = <<0, 0>>
        /\ UNCHANGED <<now, call, remote>>

\* generateMasterOnly after generateCodes resolved: codes.master alone changes
generateMasterOnlyResume(r) ==
    LET s == reqs[r]
        id == s.body.pack_serial.v
        url == MasterUrl(CodeType(s.body), id)
        pack == [ObjGet(s.db.packs, id) EXCEPT !.codes = ObjSet(@, "master", url)]
    IN  /\ s.phase = "suspended"
        /\ s.op = "generateMasterOnly"
        /\ file' = writeDB(PutPack(s.db, id, pack))
        /\ reqs' = [reqs EXCEPT ![r] = Responded(s.op, s.body, s.db, OkMaster(url, pack))]
        /\ prevAuto' = <<0, 0>>
        /\ UNCHANGED <<now, call, remote>>

\* the catch branches: nothing written
RelabelFail(r) ==
    LET s == reqs[r]
    IN  /\ s.phase = "suspended"
        /\ s.op \in {"regenerateCodes", "generateMasterOnly"}
        /\ reqs' = [reqs EXCEPT ![r] =
                       Responded(s.op, s.body, s.db,
                                 IF s.op = "regenerateCodes" THEN ErrRegenerate ELSE ErrMaster)]
        /\ UNCHANGED <<file, now, prevAuto, call, remote>>

SerialP1 == <<"P", "1">>
SerialP2 == <<"P", "2">>
SerialP3 == <<"P", "3">>

\* packs P1 and P2; one cell serial reads like the pack serial P1
OpsBodies ==
    [pack_serial : {Str(SerialP1), Str(SerialP2)}, overwrite : {FALSE}, code_type : {""},
     module1_cells : {Arr(<<CellA>>), Arr(<<CellB>>), Arr(<<SerialP1>>)},
     module2_cells : {Undefined}, module3_cells : {Undefined}]

\* the serials named by requests: those of the document, an absent one, and
\* a name db.packs inherits
OpsIds == KeySet(file.packs) \cup {SerialP3, InheritedName}

\* modules objects sent to updatePack: a module named like pack P1, a module
\* listing a cell twice, no module at all
ModulesInputs ==
    {<<(<<SerialP1, <<CellA>> >>)>>,
     <<(<<CellC, <<CellB, CellB>> >>)>>,
     << >>}

\* pack_serial as sent to regenerateCodes and generateMasterOnly.  A name
\* db.packs inherits is not sent: Object.keys(pack.modules) throws on it
\* before the try, and the request gets no answer from the handler.
RelabelInputs == {Undefined, Str(<< >>)} \cup {Str(k) : k \in KeySet(file.packs) \cup {SerialP3}}

Queries ==
    {Undefined, Str(<<" ", "A", " ">>), Str(CellB), Str(CellC), Str(SerialP1), Str(SerialP2),
     Str(SerialP3), Str(InheritedName)}
        \cup {Str(k) : k \in getAllModuleIds(readDB(file))}

OpsNext ==
    \/ \E body \in OpsBodies : SavePackOnly(1, body)
    \/ \E id \in OpsIds, modules \in ModulesInputs : updatePack(1, id, modules)
    \/ \E id \in OpsIds : deletePack(1, id)
    \/ \E serial \in RelabelInputs : regenerateCodes(1, serial)
    \/ \E serial \in RelabelInputs : generateMasterOnly(1, serial)
    \/ regenerateCodesResume(1)
    \/ generateMasterOnlyResume(1)
    \/ RelabelFail(1)
    \/ \E query \in Queries : search(1, query)
    \/ Deliver(1)

OpsSpec == Init /\ [][OpsNext]_vars

(***************************************************************************)
(* Vocabulary of the properties.                                           *)
(***************************************************************************)
\* where each cell of a document is stored
Places(db) ==
    UNION {UNION {{[pack |-> db.packs[p][1],
                    module |-> db.packs[p][2].modules[m][1],
                    cell |-> db.packs[p][2].modules[m][2][c]] :
                      c \in 1..Len(db.packs[p][2].modules[m][2])} :
                  m \in 1..Len(db.packs[p][2].modules)} :
           p \in 1..Len(db.packs)}

StoredCells(db) == {e.cell : e \in Places(db)}

ModuleKeysOf(db) ==
    UNION {{db.packs[p][2].modules[m][1] : m \in 1..Len(db.packs[p][2].modules)} :
           p \in 1..Len(db.packs)}

\* the cell lists of a request as the handler sees them
Lists(body) ==
    <<normalizeCells(body.module1_cells), normalizeCells(body.module2_cells),
      normalizeCells(body.module3_cells)>>

Submitted(body) == UNION {Range(Lists(body)[k]) : k \in 1..3}

\* the serials occurring more than once in a list
Repeated(list) ==
    {x \in Range(list) : Cardinality({i \in 1..Len(list) : list[i] = x}) > 1}

RequiredErrors ==
    {"Module 1 cell list is required", "Module 2 cell list is required",
     "Module 3 cell list is required"}

\* a slot holding the response to an allocation request
IsAlloc(s) == s.phase = "responded" /\ s.op \in {"generatePack", "savePackOnly"}

\* the serial the request resolves to against the document it read
Resolved(s) == FinalPackSerial(s.db, s.db, s.body, now)

(***************************************************************************)
(* C1.  Global cell uniqueness: in every state reached by allocations and  *)
(* deletes served one at a time, no cell serial is stored under two        *)
(* different (pack, module) pairs.                                         *)
(***************************************************************************)
C1_CellUniqueness ==
    \A e1, e2 \in Places(file) :
        e1.cell = e2.cell => e1.pack = e2.pack /\ e1.module = e2.module

(***************************************************************************)
(* C4.  An allocation whose resolved serial is a key of the document it    *)
(* read, without overwrite, and whose lists pass the required-module and   *)
(* duplicate checks, is answered "Pack already exists", and the record of  *)
(* that pack in the store is the one that was there.                       *)
(***************************************************************************)
C4_PackExistsRejected ==
    \A r \in Slots :
        LET s == reqs[r]
        IN  ( /\ IsAlloc(s)
              /\ ObjHas(s.db.packs, Resolved(s))
              /\ ~s.body.overwrite
              /\ s.res.error \notin RequiredErrors \cup {"Duplicate cells within module"} )
            => /\ s.res = ErrExists
               /\ ObjHas(file.packs, Resolved(s))
               /\ ObjGet(file.packs, Resolved(s)) = ObjGet(s.db.packs, Resolved(s))

C4_Witness ==
    \E r \in Slots :
        /\ IsAlloc(reqs[r])
        /\ reqs[r].res = ErrExists
        /\ Submitted(reqs[r].body) \cap StoredCells(reqs[r].db) # {}

(***************************************************************************)
(* C5.  An allocation with overwrite onto an existing serial P, every      *)
(* submitted cell being absent from the document or stored only in P,      *)
(* succeeds, and P's modules then hold exactly the submitted lists.        *)
(***************************************************************************)
C5_OverwriteOwnCells ==
    \A r \in Slots :
        LET s == reqs[r]
            given == SelectSeq(Lists(s.body), LAMBDA l : l # << >>)
        IN  ( /\ IsAlloc(s)
              /\ s.body.overwrite
              /\ ObjHas(s.db.packs, Resolved(s))
              /\ s.res.error \notin RequiredErrors \cup {"Duplicate cells within module",
                                                        "Failed to generate codes"}
              /\ \A e \in Places(s.db) :
                    e.cell \in Submitted(s.body) => e.pack = Resolved(s) )
            => /\ s.res.status = 200
               /\ ObjHas(file.packs, Resolved(s))
               /\ ObjValues(ObjGet(file.packs, Resolved(s)).modules) = given

(***************************************************************************)
(* C6.  An allocation that passed the required-module, duplicate and       *)
(* existence checks is answered "Duplicate cells in DB" exactly when some  *)
(* submitted cell is stored in the document it read; the conflicts then    *)
(* name every such cell, each with a pack and module that hold it.         *)
(***************************************************************************)
C6_CollisionDetection ==
    \A r \in Slots :
        LET s == reqs[r]
            hit == Submitted(s.body) \cap StoredCells(s.db)
        IN  ( /\ IsAlloc(s)
              /\ s.res.error \notin RequiredErrors \cup {"Duplicate cells within module",
                                                        "Pack already exists"} )
            => /\ (s.res.error = "Duplicate cells in DB") <=> (hit # {})
               /\ s.res.error = "Duplicate cells in DB" =>
                    /\ \A c \in hit : \E i \in 1..Len(s.res.conflicts) :
                                          s.res.conflicts[i].cell = c
                    /\ \A i \in 1..Len(s.res.conflicts) :
                          s.res.conflicts[i] \in Places(s.db)

\* a collision with a cell held by the second module of a pack
C6_Witness ==
    \E r \in Slots :
        /\ IsAlloc(reqs[r])
        /\ reqs[r].res.error = "Duplicate cells in DB"
        /\ \E i \in 1..Len(reqs[r].res.conflicts), p \in 1..Len(reqs[r].db.packs) :
              /\ Len(reqs[r].db.packs[p][2].modules) >= 2
              /\ reqs[r].res.conflicts[i].module = reqs[r].db.packs[p][2].modules[2][1]

(***************************************************************************)
(* C2.  Two allocations that both read the same document (the second read  *)
(* it while the first was suspended at its await), each valid on its own   *)
(* and with disjoint cells, both succeed, and when both have answered the  *)
(* store holds both packs under two different serials with no shared cell. *)
(***************************************************************************)
\* both answered, from the same document, neither by a label failure
AnsweredTogether(s1, s2) ==
    /\ IsAlloc(s1)
    /\ IsAlloc(s2)
    /\ s1.db = s2.db
    /\ ~Allocation(s1.db, s1.body, now).rejected
    /\ ~Allocation(s2.db, s2.body, now).rejected
    /\ s1.res # ErrCodes
    /\ s2.res # ErrCodes

C2_DisjointBothStored ==
    \A r1, r2 \in Slots :
        LET s1 == reqs[r1]
            s2 == reqs[r2]
        IN  ( /\ r1 # r2
              /\ AnsweredTogether(s1, s2)
              /\ Submitted(s1.body) \cap Submitted(s2.body) = {} )
            => /\ s1.res.status = 200
               /\ s2.res.status = 200
               /\ s1.res.pack.pack_serial # s2.res.pack.pack_serial
               /\ ObjHas(file.packs, s1.res.pack.pack_serial)
               /\ ObjHas(file.packs, s2.res.pack.pack_serial)
               /\ ObjGet(file.packs, s1.res.pack.pack_serial) = s1.res.pack
               /\ ObjGet(file.packs, s2.res.pack.pack_serial) = s2.res.pack

(***************************************************************************)
(* C3.  Two allocations that both read the same document, each valid on    *)
(* its own, and that share a cell never both succeed: one succeeds and the *)
(* other is answered "Duplicate cells in DB".                              *)
(***************************************************************************)
C3_OverlapOneRejected ==
    \A r1, r2 \in Slots :
        LET s1 == reqs[r1]
            s2 == reqs[r2]
        IN  ( /\ r1 # r2
              /\ AnsweredTogether(s1, s2)
              /\ Submitted(s1.body) \cap Submitted(s2.body) # {} )
            => \/ s1.res.status = 200 /\ s2.res.error = "Duplicate cells in DB"
               \/ s2.res.status = 200 /\ s1.res.error = "Duplicate cells in DB"

(***************************************************************************)
(* C7.  duplicatesInArray returns exactly the serials that occur more than *)
(* once in the list, each once; and an allocation is answered "Duplicate   *)
(* cells within module", with those lists, exactly when one of its module  *)
(* lists has a repeated serial.                                            *)
(***************************************************************************)
C7_DuplicatesExact ==
    (call.fn = "duplicatesInArray" /\ call.done)
        => /\ Range(call.ret) = Repeated(call.arr)
           /\ Len(call.ret) = Cardinality(Repeated(call.arr))

C7_RejectionLists ==
    ( /\ call.fn = "Allocation"
      /\ call.done
      /\ call.ret.rejected
      /\ call.ret.res.error = "Duplicate cells within module" )
    => /\ Range(call.ret.res.module1_duplicates) = Repeated(Lists(call.body)[1])
       /\ Range(call.ret.res.module2_duplicates) = Repeated(Lists(call.body)[2])
       /\ Range(call.ret.res.module3_duplicates) = Repeated(Lists(call.body)[3])
       /\ Len(call.ret.res.module1_duplicates) = Cardinality(Repeated(Lists(call.body)[1]))
       /\ Len(call.ret.res.module2_duplicates) = Cardinality(Repeated(Lists(call.body)[2]))
       /\ Len(call.ret.res.module3_duplicates) = Cardinality(Repeated(Lists(call.body)[3]))

DuplicatesRejected(ret) ==
    ret.rejected /\ ret.res.error = "Duplicate cells within module"

SomeListRepeats(body) == \E k \in 1..3 : Repeated(Lists(body)[k]) # {}

C8_UnitCounterSteps == prevAuto[1] # 0 => prevAuto[2] = prevAuto[1] + 1

(***************************************************************************)
(* C9.  The serial nextPackSerial computes for a document is no key of     *)
(* that document: an allocation without an explicit serial is never        *)
(* answered "Pack already exists" and never replaces an existing pack.     *)
(***************************************************************************)
C9_NextSerialUnused ==
    /\ ~ObjHas(file.packs, nextPackSerial(readDB(file), readConfig(file), now))
    /\ \A r \in Slots :
          (IsAlloc(reqs[r]) /\ ~HasSerial(reqs[r].body))
              => /\ reqs[r].res # ErrExists
                 /\ reqs[r].res.status = 200
                       => ~ObjHas(reqs[r].db.packs, reqs[r].res.pack.pack_serial)

(***************************************************************************)
(* C10.  allocateModuleIds(db, count), count in 1..3, returns count        *)
(* different serials none of which is a module key of a pack of db.        *)
(***************************************************************************)
C10_ModuleSerialsFresh ==
    (call.fn = "allocateModuleIds" /\ call.done)
        => /\ Len(call.ret) = call.count
           /\ \A i \in 1..Len(call.ret) : call.ret[i] \notin ModuleKeysOf(call.db)
           /\ \A i, j \in 1..Len(call.ret) : call.ret[i] = call.ret[j] => i = j

\* the document holds today's counters 99999 and 100000
C10_Witness ==
    /\ call.fn = "allocateModuleIds"
    /\ call.done
    /\ call.count = 3
    /\ ModuleKey(<<"9", "9", "9", "9", "9">>) \in ModuleKeysOf(call.db)
    /\ ModuleKey(<<"1", "0", "0", "0", "0", "0">>) \in ModuleKeysOf(call.db)
    /\ ModuleKey(<<"0", "0", "0", "0", "x">>) \in ModuleKeysOf(call.db)

(***************************************************************************)
(* C11.  Two calls of the next-serial preview with no write between them   *)
(* answer the same serial, and a preview leaves the document as it was.    *)
(***************************************************************************)
IsPreview(s) == s.phase = "responded" /\ s.op = "nextSerialPreview"

PreviewStep(r) == reqs[r].phase = "idle" /\ IsPreview(reqs'[r])

\* C11 as stated: the earlier preview read the document the later one reads
C11_Original ==
    [][\A r \in HistorySlots : PreviewStep(r) =>
          /\ file' = file
          /\ \A r2 \in HistorySlots :
                (IsPreview(reqs[r2]) /\ reqs[r2].db = file)
                    => reqs'[r].res.next = reqs[r2].res.next]_vars

\* C11 for two previews made in the same calendar month: the serial carries
\* the year and month read from the clock
C11_SameMonth ==
    [][\A r \in HistorySlots : PreviewStep(r) =>
          /\ file' = file
          /\ \A r2 \in HistorySlots :
                ( /\ IsPreview(reqs[r2])
                  /\ reqs[r2].db = file
                  /\ reqs[r2].body.clock.year = now.year
                  /\ reqs[r2].body.clock.month = now.month )
                    => reqs'[r].res.next = reqs[r2].res.next]_vars

\* two previews of a document holding two packs, both answering counter 3
C11_Witness ==
    /\ IsPreview(reqs[1])
    /\ IsPreview(reqs[2])
    /\ reqs[1].db = file
    /\ reqs[2].db = file
    /\ Len(file.packs) = 2
    /\ reqs[1].res.next = reqs[2].res.next
    /\ UnitOf(reqs[1].res.next, file, now) = 3

(***************************************************************************)
(* C12.  After a successful delete of pack P the cells that were stored    *)
(* only in P are not in the index built by getAllCells, and no allocation  *)
(* submitted next is rejected for a collision on one of them.              *)
(***************************************************************************)
IsDeleted(s) == s.phase = "responded" /\ s.op = "deletePack" /\ s.res = OkDeleted

\* the cells a document stores in pack id and in no other pack
OnlyIn(db, id) ==
    {e.cell : e \in {x \in Places(db) : x.pack = id}}
        \ {e.cell : e \in {x \in Places(db) : x.pack # id}}

\* the cells named by the collision rejection of an allocation, if it is one
CollidingCells(a) ==
    IF a.rejected /\ a.res.error = "Duplicate cells in DB"
    THEN {a.res.conflicts[i].cell : i \in 1..Len(a.res.conflicts)}
    ELSE {}

C12_DeleteFreesCells ==
    LET s == reqs[1]
    IN  IsDeleted(s) =>
           /\ OnlyIn(s.db, s.body.id) \cap DOMAIN getAllCells(file) = {}
           /\ \A body \in AllocBodies :
                 CollidingCells(Allocation(file, body, now)) \cap OnlyIn(s.db, s.body.id) = {}

\* a pack holding a cell of its own was deleted, and an allocation submitting
\* that cell would now be accepted
C12_Witness ==
    /\ IsDeleted(reqs[1])
    /\ \E body \in AllocBodies :
          /\ Submitted(body) \cap OnlyIn(reqs[1].db, reqs[1].body.id) # {}
          /\ ~Allocation(file, body, now).rejected
    /\ Len(file.packs) > 0

(***************************************************************************)
(* C13.  An allocation answered with a rejection (required module list     *)
(* missing, duplicates within a module, pack exists, cell collision)       *)
(* leaves the document, packs and configuration, as the request read it.   *)
(***************************************************************************)
Rejections ==
    RequiredErrors
        \cup {"Duplicate cells within module", "Pack already exists", "Duplicate cells in DB"}

C13_RejectionWritesNothing ==
    LET s == reqs[1]
    IN  (IsAlloc(s) /\ s.res.error \in Rejections) => file = s.db

\* a collision rejection against a document holding a pack
C13_Witness ==
    /\ IsAlloc(reqs[1])
    /\ reqs[1].res.error = "Duplicate cells in DB"
    /\ reqs[1].op = "savePackOnly"
    /\ Len(file.packs) > 0
    /\ file = reqs[1].db

(***************************************************************************)
(* C14.  generatePack whose label generation fails answers "Failed to      *)
(* generate codes" and the document is as the request read it: no record   *)
(* for a new pack, the old record for a pack that was to be overwritten.   *)
(***************************************************************************)
C14_LabelFailureWritesNothing ==
    LET s == reqs[1]
    IN  (IsAlloc(s) /\ s.res = ErrCodes) =>
           /\ s.op = "generatePack"
           /\ file = s.db
           /\ ObjHas(file.packs, Resolved(s)) <=> ObjHas(s.db.packs, Resolved(s))
           /\ ObjHas(s.db.packs, Resolved(s))
                 => ObjGet(file.packs, Resolved(s)) = ObjGet(s.db.packs, Resolved(s))

\* the failed request was to overwrite an existing pack with other cells
C14_Witness ==
    /\ IsAlloc(reqs[1])
    /\ reqs[1].res = ErrCodes
    /\ reqs[1].body.overwrite
    /\ ObjHas(file.packs, Resolved(reqs[1]))
    /\ Submitted(reqs[1].body) \cap StoredCells(file) = {}

(***************************************************************************)
(* C15.  An allocation supplying k non-empty module payloads, k in 1..3,   *)
(* under whichever of the three roles, and passing the uniqueness checks   *)
(* (no repeat within a list, serial free or overwrite, no stored cell)     *)
(* creates a pack of exactly k modules holding the payloads in order.      *)
(***************************************************************************)
\* the non-empty cell lists of a request, in the order of their roles
Payloads(body) == SelectSeq(Lists(body), LAMBDA l : Len(l) > 0)

PassesUniqueness(s) ==
    /\ \A k \in 1..3 : Repeated(Lists(s.body)[k]) = {}
    /\ ~PackExists(s.db, Resolved(s), s.body.overwrite)
    /\ Submitted(s.body) \cap StoredCells(s.db) = {}

C15_ModuleCount ==
    LET s == reqs[1]
    IN  ( /\ IsAlloc(s)
          /\ Len(Payloads(s.body)) >= 1
          /\ PassesUniqueness(s)
          /\ s.res # ErrCodes )
        => /\ s.res.status = 200
           /\ Len(s.res.pack.modules) = Len(Payloads(s.body))
           /\ ObjValues(s.res.pack.modules) = Payloads(s.body)

(***************************************************************************)
(* C16.  search answers a non-empty query in strict priority: a pack key   *)
(* gives that pack, kind pack; otherwise a module key of some pack gives   *)
(* kind module with a pack that has the module; otherwise a stored cell    *)
(* gives kind cell with a pack and module that hold it; otherwise nothing  *)
(* is found.  The document is left as it was.                              *)
(***************************************************************************)
IsSearch(s) == s.phase = "responded" /\ s.op = "search"

\* the query as search reads it
QueryOf(s) == IF s.body.q.kind = "string" THEN Trim(s.body.q.v) ELSE << >>

C16_SearchPriority ==
    LET s == reqs[1]
        q == QueryOf(s)
    IN  (IsSearch(s) /\ q # << >>) =>
           /\ file = s.db
           /\ IF ObjHas(s.db.packs, q)
              THEN s.res.type = "pack" /\ s.res = PackResult(s.db, q)
                   /\ s.res.pack = ObjGet(s.db.packs, q)
              ELSE IF q \in ModuleKeysOf(s.db)
              THEN /\ s.res.type = "module"
                   /\ s.res.moduleId = q
                   /\ ObjHas(s.db.packs, s.res.packId)
                   /\ s.res.pack = ObjGet(s.db.packs, s.res.packId)
                   /\ ObjHas(s.res.pack.modules, q)
              ELSE IF q \in StoredCells(s.db)
              THEN /\ s.res.type = "cell"
                   /\ s.res.cell = q
                   /\ [pack |-> s.res.packId, module |-> s.res.moduleId, cell |-> q]
                         \in Places(s.db)
                   /\ s.res.pack = ObjGet(s.db.packs, s.res.packId)
              ELSE s.res.type = "none"

(***************************************************************************)
(* C17.  updatePack, deletePack, regenerateCodes and generateMasterOnly    *)
(* called with a serial that is no key of the document answer not-found    *)
(* and leave the document as it was, without a record for that serial.     *)
(***************************************************************************)
\* the serial a request names, empty when it names none
NamedSerial(s) ==
    IF s.op \in {"updatePack", "deletePack"} THEN s.body.id
    ELSE IF s.body.pack_serial.kind = "string" THEN s.body.pack_serial.v
    ELSE << >>

C17_AbsentIsNotFound ==
    LET s == reqs[1]
    IN  ( /\ s.phase = "responded"
          /\ s.op \in {"updatePack", "deletePack", "regenerateCodes", "generateMasterOnly"}
          /\ NamedSerial(s) # << >>
          /\ ~ObjHas(s.db.packs, NamedSerial(s)) )
        => /\ s.res.status = 404
           /\ file = s.db
           /\ ~ObjHas(file.packs, NamedSerial(s))

(***************************************************************************)
(* C19.  After a successful updatePack of pack P, in a document that       *)
(* stored no cell twice, no cell of P is also stored in another pack and   *)
(* no module of P lists a cell twice.                                      *)
(***************************************************************************)
\* no cell stored in two places, none listed twice in a module
StoresNoCellTwice(db) ==
    /\ \A e1, e2 \in Places(db) :
          e1.cell = e2.cell => e1.pack = e2.pack /\ e1.module = e2.module
    /\ \A p \in 1..Len(db.packs) : \A m \in 1..Len(db.packs[p][2].modules) :
          Repeated(db.packs[p][2].modules[m][2]) = {}

C19_UpdateKeepsUniqueness ==
    LET s == reqs[1]
    IN  ( /\ s.phase = "responded"
          /\ s.op = "updatePack"
          /\ s.res.status = 200
          /\ ObjHas(s.db.packs, s.body.id)
          /\ StoresNoCellTwice(s.db) )
        => /\ \A e1, e2 \in Places(file) :
                 (e1.pack = s.body.id /\ e2.pack # s.body.id) => e1.cell # e2.cell
           /\ \A m \in 1..Len(ObjGet(file.packs, s.body.id).modules) :
                 Repeated(ObjGet(file.packs, s.body.id).modules[m][2]) = {}

(***************************************************************************)
(* C18.  The checks of an allocation run in the order required-module      *)
(* check, duplicate check within each module, pack-existence check,        *)
(* collision check, and the first that fails is the answer: duplicates     *)
(* win over an existing serial, an existing serial without overwrite wins  *)
(* over colliding cells.                                                   *)
(***************************************************************************)
\* the roles that must hold a list: as many as there are payloads, or as
\* the configuration enables when there is none
RolesRequired(f, body) ==
    IF Len(Payloads(body)) > 0 THEN Len(Payloads(body)) ELSE RequiredCount(readConfig(f))

FailsRequired(f, body) == \E k \in 1..RolesRequired(f, body) : Len(Lists(body)[k]) = 0

FailsExists(f, body) ==
    ObjHas(f.packs, FinalPackSerial(f, f, body, now)) /\ ~body.overwrite

FailsCollision(f, body) == Submitted(body) \cap StoredCells(f) # {}

\* "" for an allocation that is not rejected
ErrorOf(a) == IF a.rejected THEN a.res.error ELSE ""

C18_ValidationOrder ==
    (call.fn = "Allocation" /\ call.done) =>
        IF FailsRequired(call.f, call.body)
        THEN ErrorOf(call.ret) \in RequiredErrors
        ELSE IF SomeListRepeats(call.body)
        THEN ErrorOf(call.ret) = "Duplicate cells within module"
        ELSE IF FailsExists(call.f, call.body)
        THEN ErrorOf(call.ret) = "Pack already exists"
        ELSE IF FailsCollision(call.f, call.body)
        THEN ErrorOf(call.ret) = "Duplicate cells in DB"
        ELSE ErrorOf(call.ret) = ""

\* an existing serial without overwrite and a colliding cell: pack exists
C18_Witness ==
    /\ call.fn = "Allocation"
    /\ call.done
    /\ ~FailsRequired(call.f, call.body)
    /\ ~SomeListRepeats(call.body)
    /\ FailsExists(call.f, call.body)
    /\ FailsCollision(call.f, call.body)
    /\ call.ret.res = ErrExists

(***************************************************************************)
(* C20.  On one calendar day a module serial once given to a module is     *)
(* never given to a module created later, also not after the pack that     *)
(* owned it was deleted.                                                   *)
(***************************************************************************)
\* the allocation answered in s2 read the document the delete answered in
\* s1 had just written, and its pack is the last thing written
AllocatedAfterDelete(s1, s2) ==
    /\ IsDeleted(s1)
    /\ ObjHas(s1.db.packs, s1.body.id)
    /\ IsAlloc(s2)
    /\ s2.res.status = 200
    /\ s2.db = [s1.db EXCEPT !.packs = ObjDelete(@, s1.body.id)]
    /\ file = PutPack(s2.db, s2.res.pack.pack_serial, s2.res.pack)

C20_ModuleSerialsNeverReused ==
    \A r1, r2 \in HistorySlots :
        (r1 # r2 /\ now = Today /\ AllocatedAfterDelete(reqs[r1], reqs[r2]))
            => KeySet(reqs[r2].res.pack.modules)
                  \cap KeySet(ObjGet(reqs[r1].db.packs, reqs[r1].body.id).modules) = {}

(***************************************************************************)
(* C23.  nextPackSerial returns the current prefix followed by a 4-digit   *)
(* counter: one plus the greatest counter among the keys made of the       *)
(* prefix and exactly four digits, 0001 when there is none; other keys     *)
(* under the prefix are ignored.                                           *)
(***************************************************************************)
\* the counters of the keys of db made of the prefix and exactly four digits
CountersUnder(db, prefix) ==
    {ParseInt(Slice(k, Len(prefix))) :
        k \in {x \in KeySet(db.packs) :
                  /\ Len(x) = Len(prefix) + 4
                  /\ StartsWith(x, prefix)
                  /\ IsDigits(Slice(x, Len(prefix)), 4)}}

GreatestCounter(db, prefix) ==
    IF CountersUnder(db, prefix) = {} THEN 0
    ELSE CHOOSE n \in CountersUnder(db, prefix) : \A m \in CountersUnder(db, prefix) : m <= n

C23_NextPackSerialFormat ==
    (call.fn = "nextPackSerial" /\ call.done) =>
        LET prefix == PackPrefix(readConfig(call.db), now)
        IN  /\ StartsWith(call.ret, prefix)
            /\ Len(call.ret) = Len(prefix) + 4
            /\ IsDigits(Slice(call.ret, Len(prefix)), 4)
            /\ ParseInt(Slice(call.ret, Len(prefix))) = GreatestCounter(call.db, prefix) + 1

(***************************************************************************)
(* Configuration: writeConfig, getConfig and updateConfig.                 *)
(***************************************************************************)
\* a request value that is an object
Obj(o) == [kind |-> "object", v |-> o]

\* a request string used as a condition: undefined and "" are falsy
IsTruthy(x) == x.kind # "undefined" /\ x.v # << >>

\* the same for productName and variant, which the model keeps as whole words
IsTruthyWord(x) == x.kind # "undefined" /\ x.v # ""

\* writeConfig.  Its one caller hands in an object literal naming all five
\* properties, so the spread { ...db.config, ...partial } takes every property
\* from partial, the undefined ones included; modulesEnabled, productName and
\* variant then get their defaults when falsy, and the document is written.
writeConfig(f, partial) ==
    LET db == readDB(f)
        config ==
            [model |-> IF partial.model.kind = "undefined" THEN Absent
                       ELSE partial.model.v,
             batch |-> IF partial.batch.kind = "undefined" THEN Absent
                       ELSE partial.batch.v,
             modulesEnabled |->
                 IF partial.modulesEnabled.kind = "undefined"
                 THEN [m1 |-> TRUE, m2 |-> TRUE, m3 |-> FALSE]
                 ELSE partial.modulesEnabled.v,
             productName |-> IF IsTruthyWord(partial.productName)
                             THEN partial.productName.v ELSE "NX100",
             variant |-> IF IsTruthyWord(partial.variant)
                         THEN partial.variant.v ELSE "Pro"]
    IN  writeDB([db EXCEPT !.config = config])

AutoVariant(enabled) ==
    IF enabled.m3 THEN "Max" ELSE IF enabled.m2 THEN "Pro" ELSE "Classic"

\* the object literal updateConfig hands to writeConfig
ConfigPartial(current, body) ==
    LET nextEnabled == IF body.modulesEnabled.kind # "undefined"
                       THEN body.modulesEnabled.v ELSE current.modulesEnabled
    IN  [model |-> body.model,
         batch |-> IF IsTruthy(body.batch)
                   THEN Str(PadStart(body.batch.v, 3, "0")) ELSE Undefined,
         modulesEnabled |-> body.modulesEnabled,
         productName |-> body.productName,
         variant |-> IF body.variant.kind # "undefined" THEN body.variant
                     ELSE Str(AutoVariant(nextEnabled))]

\* updateConfig: a batch that is not /^\d{1,3}$/ and a model that is neither
\* LFP6 nor LFP9 are refused; otherwise writeConfig, whose result is answered
updateConfig(r, body) ==
    /\ reqs[r].phase = "idle"
    /\ IF /\ IsTruthy(body.batch)
          /\ ~(/\ Len(body.batch.v) \in 1..3
               /\ \A i \in 1..Len(body.batch.v) : IsDigit(body.batch.v[i]))
       THEN /\ reqs' = [reqs EXCEPT ![r] =
                           Responded("updateConfig", body, readDB(file),
                                     [status |-> 400, error |-> "batch must be 1-3 digits"])]
            /\ UNCHANGED <<file, prevAuto>>
       ELSE IF IsTruthy(body.model) /\ body.model.v \notin {LFP6, LFP9}
       THEN /\ reqs' = [reqs EXCEPT ![r] =
                           Responded("updateConfig", body, readDB(file),
                                     [status |-> 400, error |-> "model must be LFP6 or LFP9"])]
            /\ UNCHANGED <<file, prevAuto>>
       ELSE LET written == writeConfig(file, ConfigPartial(readConfig(file), body))
            IN  /\ file' = written
                /\ prevAuto' = <<0, 0>>
                /\ reqs' = [reqs EXCEPT ![r] =
                               Responded("updateConfig", body, readDB(file),
                                         [status |-> 200, config |-> written.config])]
    /\ UNCHANGED <<now, call, remote>>

getConfig(r) ==
    /\ reqs[r].phase = "idle"
    /\ reqs' = [reqs EXCEPT ![r] =
                   Responded("getConfig", [clock |-> now], readDB(file),
                             [status |-> 200, config |-> readConfig(file)])]
    /\ UNCHANGED <<file, now, prevAuto, call, remote>>

ConfigBodies ==
    [model : {Undefined, Str(LFP6), Str(<<"L", "F", "P">>)},
     batch : {Undefined, Str(<<"7">>), Str(<<"1", "2", "3", "4">>)},
     modulesEnabled : {Undefined, Obj([m1 |-> TRUE, m2 |-> TRUE, m3 |-> TRUE]),
                       Obj([m1 |-> TRUE, m2 |-> FALSE, m3 |-> FALSE])},
     productName : {Undefined, Str("NX200")},
     variant : {Undefined, Str("Classic")}]

ConfigNext ==
    \/ \E body \in ConfigBodies : updateConfig(1, body)
    \/ getConfig(1)
    \/ nextSerialPreview(1)
    \/ Deliver(1)

ConfigSpec == Init /\ [][ConfigNext]_vars

\* a configuration update answered in slot 1, and one answered 200
IsConfigUpdate(s) == s.phase = "responded" /\ s.op = "updateConfig"
ConfigUpdated(s) == IsConfigUpdate(s) /\ s.res.status = 200

(***************************************************************************)
(* C24.  Through configuration updates the stored configuration keeps a    *)
(* model of LFP6 or LFP9 and a batch code of exactly three digits; an      *)
(* update with an invalid batch or model is rejected and leaves the        *)
(* configuration unchanged.                                                *)
(***************************************************************************)
ConfigWellFormed(cfg) == cfg.model \in {LFP6, LFP9} /\ IsDigits(cfg.batch, 3)

C24_ConfigStaysValid ==
    /\ ConfigWellFormed(file.config)
    /\ (IsConfigUpdate(reqs[1]) /\ reqs[1].res.status = 400) =>
           file.config = reqs[1].db.config

(***************************************************************************)
(* C25.  After a configuration update that supplies no variant, the stored *)
(* variant is the one the stored module flags give: Max with m3, else Pro  *)
(* with m2, else Classic.                                                  *)
(***************************************************************************)
C25_VariantInSync ==
    (ConfigUpdated(reqs[1]) /\ reqs[1].body.variant.kind = "undefined") =>
        file.config.variant = AutoVariant(file.config.modulesEnabled)

(***************************************************************************)
(* C26.  A configuration update changes only the fields the request        *)
(* supplies: model, batch, modulesEnabled and productName keep their       *)
(* stored value when omitted.                                              *)
(***************************************************************************)
C26_OmittedFieldsKept ==
    ConfigUpdated(reqs[1]) =>
        LET body == reqs[1].body
            before == reqs[1].db.config
        IN  /\ body.model.kind = "undefined" => file.config.model = before.model
            /\ body.batch.kind = "undefined" => file.config.batch = before.batch
            /\ body.modulesEnabled.kind = "undefined" =>
                   file.config.modulesEnabled = before.modulesEnabled
            /\ body.productName.kind = "undefined" =>
                   file.config.productName = before.productName

(***************************************************************************)
(* RaceSpec: allocations and deletes around one await.  Slot 1 holds one   *)
(* generatePack, which reads the document, waits for its labels and        *)
(* writes; slot 2 serves any sequence of savePackOnly and delete requests  *)
(* before, during and after that wait.                                     *)
(***************************************************************************)
RaceBodies ==
    [pack_serial : {Undefined, Str(SerialP1)}, overwrite : {FALSE}, code_type : {""},
     module1_cells : {Arr(<<CellA>>), Arr(<<CellB>>)},
     module2_cells : {Undefined}, module3_cells : {Undefined}]

RaceNext ==
    \/ \E body \in RaceBodies : GeneratePack(1, body)
    \/ GeneratePackResume(1)
    \/ \E body \in RaceBodies : SavePackOnly(2, body)
    \/ \E id \in KeySet(file.packs) : deletePack(2, id)
    \/ Deliver(2)

RaceSpec == Init /\ [][RaceNext]_vars

(***************************************************************************)
(* AwaitSpec: slot 1 holds one request that waits for labels (a            *)
(* regeneration, a master-label generation or a generatePack); slot 2      *)
(* serves any sequence of savePackOnly, delete and configuration update    *)
(* requests before, during and after that wait.                            *)
(***************************************************************************)
AwaitBodies ==
    {[pack_serial |-> Str(SerialP1), overwrite |-> FALSE, code_type |-> "",
      module1_cells |-> Arr(<<CellA>>), module2_cells |-> Undefined,
      module3_cells |-> Undefined],
     [pack_serial |-> Str(SerialP2), overwrite |-> FALSE, code_type |-> "",
      module1_cells |-> Arr(<<CellB>>), module2_cells |-> Undefined,
      module3_cells |-> Undefined]}

\* one complete configuration update, moving the fleet to model LFP6, batch 007
AwaitConfigBodies ==
    {[model |-> Str(LFP6), batch |-> Str(<<"7">>),
      modulesEnabled |-> Obj([m1 |-> TRUE, m2 |-> TRUE, m3 |-> FALSE]),
      productName |-> Str("NX200"), variant |-> Undefined]}

AwaitNext ==
    \/ \E id \in KeySet(file.packs) : regenerateCodes(1, Str(id))
    \/ \E id \in KeySet(file.packs) : generateMasterOnly(1, Str(id))
    \/ regenerateCodesResume(1)
    \/ generateMasterOnlyResume(1)
    \/ RelabelFail(1)
    \/ \E body \in AwaitBodies : GeneratePack(1, body)
    \/ GeneratePackResume(1)
    \/ GeneratePackFail(1)
    \/ \E body \in AwaitBodies : SavePackOnly(2, body)
    \/ \E id \in KeySet(file.packs) : deletePack(2, id)
    \/ \E body \in AwaitConfigBodies : updateConfig(2, body)
    \/ Deliver(2)

AwaitSpec == Init /\ [][AwaitNext]_vars

\* a step in which slot r answers a request; the answer is reqs'[r]
Answers(r) == reqs[r].phase # "responded" /\ reqs'[r].phase = "responded"

\* a step in which the suspended regeneration or master-label generation of
\* slot r writes and answers 200
RelabelWrites(r) ==
    /\ reqs[r].phase = "suspended"
    /\ reqs[r].op \in {"regenerateCodes", "generateMasterOnly"}
    /\ Answers(r)
    /\ reqs'[r].res.status = 200

(***************************************************************************)
(* C21.  The stored configuration changes only in a step of updateConfig:  *)
(* no allocation, delete, label regeneration or master-label step, in any  *)
(* interleaving with a configuration update, changes or reverts it.        *)
(***************************************************************************)
C21_ConfigOnlyByUpdate ==
    [][file'.config # file.config =>
          \E r \in {1, 2} : Answers(r) /\ reqs'[r].op = "updateConfig"]_vars

(***************************************************************************)
(* C22.  The write of a label regeneration or master-label generation for  *)
(* pack P changes nothing but P's label references: the configuration,     *)
(* every other pack and P's modules are as they were in the store          *)
(* immediately before that write.                                          *)
(***************************************************************************)
C22_RelabelFrame ==
    [][RelabelWrites(1) =>
          LET id == reqs[1].body.pack_serial.v
          IN  /\ file'.config = file.config
              /\ ObjKeys(file'.packs) = ObjKeys(file.packs)
              /\ id \in KeySet(file.packs)
              /\ \A k \in KeySet(file.packs) \ {id} :
                     ObjGet(file'.packs, k) = ObjGet(file.packs, k)
              /\ ObjGet(file'.packs, id).modules = ObjGet(file.packs, id).modules]_vars

(***************************************************************************)
(* C27.  Delete is permanent: a pack serial absent from the document gets  *)
(* a record only by a successful allocation that resolves to that serial;  *)
(* a regeneration or master-label generation in flight when the pack was   *)
(* deleted does not write it back.                                         *)
(***************************************************************************)
C27_DeleteIsPermanent ==
    [][\A k \in KeySet(file'.packs) \ KeySet(file.packs) :
          \E r \in {1, 2} :
              /\ Answers(r)
              /\ IsAlloc(reqs'[r])
              /\ reqs'[r].res.status = 200
              /\ reqs'[r].res.pack.pack_serial = k]_vars

(***************************************************************************)
(* C28.  No cell serial is stored in two different packs in any state      *)
(* reached through allocations, in any interleaving of their read, label   *)
(* generation and write, and deletes.                                      *)
(***************************************************************************)
C28_NoCellInTwoPacks ==
    \A e1, e2 \in Places(file) : e1.cell = e2.cell => e1.pack = e2.pack

\* both slots hold a successful allocation of the same cell under different
\* pack serials, neither having seen the other's pack, and the document
\* stores the cell
C28_Witness ==
    /\ IsAlloc(reqs[1]) /\ reqs[1].res.status = 200
    /\ IsAlloc(reqs[2]) /\ reqs[2].res.status = 200
    /\ reqs[1].res.pack.pack_serial # reqs[2].res.pack.pack_serial
    /\ ~ObjHas(reqs[1].db.packs, reqs[2].res.pack.pack_serial)
    /\ ~ObjHas(reqs[2].db.packs, reqs[1].res.pack.pack_serial)
    /\ Submitted(reqs[1].body) \cap Submitted(reqs[2].body) \cap StoredCells(file) # {}

(***************************************************************************)
(* PreviewSpec: slot 1 asks for previews of the next pack serial; slot 2   *)
(* serves savePackOnly requests without a pack_serial or with an empty or  *)
(* blank one, deletes and configuration updates; the clock may pass into   *)
(* the next month.                                                         *)
(***************************************************************************)
PreviewBodies ==
    [pack_serial : {Undefined, Str(<< >>), Str(<<" ">>)},
     overwrite : {FALSE}, code_type : {""},
     module1_cells : {Arr(<<CellA>>), Arr(<<CellB>>)},
     module2_cells : {Undefined}, module3_cells : {Undefined}]

PreviewNext ==
    \/ nextSerialPreview(1)
    \/ Deliver(1)
    \/ \E body \in PreviewBodies : SavePackOnly(2, body)
    \/ \E id \in KeySet(file.packs) : deletePack(2, id)
    \/ \E body \in AwaitConfigBodies : updateConfig(2, body)
    \/ Deliver(2)
    \/ Tick

PreviewSpec == Init /\ [][PreviewNext]_vars

(***************************************************************************)
(* C30.  Preview matches allocation: when a preview answered serial S and  *)
(* the next request is a successful allocation without a pack_serial (or   *)
(* with an empty or blank one), with no write, configuration change or     *)
(* month change since the preview, the pack created has serial S.          *)
(***************************************************************************)
\* the request names no pack serial: none, an empty one or white space only
NoExplicitSerial(body) ==
    \/ body.pack_serial.kind = "undefined"
    \/ /\ body.pack_serial.kind = "string"
       /\ \A i \in 1..Len(body.pack_serial.v) : IsSpace(body.pack_serial.v[i])

\* the preview held in slot 1 is of the document and the month as they are
PreviewCurrent ==
    /\ IsPreview(reqs[1])
    /\ reqs[1].db = file
    /\ reqs[1].body.clock.year = now.year
    /\ reqs[1].body.clock.month = now.month

C30_PreviewMatchesAllocation ==
    [][(/\ PreviewCurrent
        /\ Answers(2)
        /\ IsAlloc(reqs'[2])
        /\ reqs'[2].res.status = 200
        /\ NoExplicitSerial(reqs'[2].body))
           => /\ reqs'[2].res.pack.pack_serial = reqs[1].res.next
              /\ ObjHas(file'.packs, reqs[1].res.next)]_vars

\* a preview of a document holding a pack answered counter 2, and the pack
\* then created for a blank pack_serial has that serial
C30_Witness ==
    /\ IsPreview(reqs[1])
    /\ Len(reqs[1].db.packs) = 1
    /\ IsAlloc(reqs[2])
    /\ reqs[2].res.status = 200
    /\ reqs[2].body.pack_serial = Str(<<" ">>)
    /\ reqs[2].db = reqs[1].db
    /\ reqs[2].res.pack.pack_serial = reqs[1].res.next
    /\ ObjHas(file.packs, reqs[1].res.next)
    /\ UnitOf(reqs[1].res.next, file, now) = 2

(***************************************************************************)
(* StoreSpec: readDB and writeDB with Supabase configured.  file is the    *)
(* local cache at DB_PATH, remote the object db/battery_db.json with the   *)
(* downloads and uploads under way.  Nothing waits for a transfer: readDB  *)
(* and writeDB return at once and the transfers end later, in any order,   *)
(* or fail.                                                                *)
(***************************************************************************)
\* no cache file, no remote object, no data in a response, nothing written yet
Nothing == [nothing |-> TRUE]

RemoveAt(q, i) == SubSeq(q, 1, i - 1) \o SubSeq(q, i + 1, Len(q))

StoreInit ==
    /\ file = Nothing
    /\ now = Today
    /\ reqs = [r \in Slots |-> Idle]
    /\ prevAuto = <<0, 0>>
    /\ call = [fn |-> "none", written |-> Nothing, ret |-> Nothing]
    /\ remote \in [object : {Nothing, EmptyDB, DocP1A}, downloads : {<< >>}, uploads : {<< >>}]

\* readDB, supabaseRead: the cache is returned as parsed, or the default
\* document when there is none, and a download of the remote object is started
supabaseRead ==
    LET cached == file # Nothing
    IN  /\ Len(remote.downloads) < MaxTransfers
        /\ call' = [fn |-> "readDB", written |-> call.written,
                    ret |-> IF cached THEN file ELSE EmptyDB]
        /\ remote' = [remote EXCEPT !.downloads =
                         Append(@, [phase |-> "sent", data |-> Nothing, cached |-> cached])]
        /\ UNCHANGED <<file, now, reqs, prevAuto>>

\* writeDB: the cache is written and an upload of the same text is started
supabaseWrite(db) ==
    /\ Len(remote.uploads) < MaxTransfers
    /\ file' = db
    /\ call' = [fn |-> "writeDB", written |-> db, ret |-> Nothing]
    /\ remote' = [remote EXCEPT !.uploads = Append(@, [payload |-> db, thenCache |-> FALSE])]
    /\ UNCHANGED <<now, reqs, prevAuto>>

\* the storage service answers a download with the object as it is then
downloadServed(i) ==
    /\ remote.downloads[i].phase = "sent"
    /\ remote' = [remote EXCEPT !.downloads[i].phase = "served",
                                !.downloads[i].data = remote.object]
    /\ UNCHANGED <<file, now, reqs, prevAuto, call>>

\* the .then of a download: the text received is written to the cache; with
\* no object, the empty document is uploaded (and cached afterwards by the
\* read that found no cache)
downloadThen(i) ==
    LET d == remote.downloads[i]
    IN  /\ d.phase = "served"
        /\ IF d.data # Nothing
           THEN /\ file' = d.data
                /\ remote' = [remote EXCEPT !.downloads = RemoveAt(@, i)]
           ELSE /\ Len(remote.uploads) < MaxTransfers
                /\ remote' = [remote EXCEPT
                                 !.downloads = RemoveAt(@, i),
                                 !.uploads = Append(@, [payload |-> EmptyDB,
                                                        thenCache |-> ~d.cached])]
                /\ UNCHANGED file
        /\ UNCHANGED <<now, reqs, prevAuto, call>>

\* an upload reaches the storage service
uploadDone(i) ==
    LET u == remote.uploads[i]
    IN  /\ remote' = [remote EXCEPT !.object = u.payload, !.uploads = RemoveAt(@, i)]
        /\ file' = IF u.thenCache THEN u.payload ELSE file
        /\ UNCHANGED <<now, reqs, prevAuto, call>>

\* .catch(() => {}): a download or an upload that fails is dropped
transferFails(kind, i) ==
    /\ remote' = IF kind = "download"
                 THEN [remote EXCEPT !.downloads = RemoveAt(@, i)]
                 ELSE [remote EXCEPT !.uploads = RemoveAt(@, i)]
    /\ UNCHANGED <<file, now, reqs, prevAuto, call>>

StoreNext ==
    \/ supabaseRead
    \/ \E db \in {EmptyDB, DocP1A} : supabaseWrite(db)
    \/ \E i \in 1..Len(remote.downloads) : downloadServed(i)
    \/ \E i \in 1..Len(remote.downloads) : downloadThen(i)
    \/ \E i \in 1..Len(remote.uploads) : uploadDone(i)
    \/ \E i \in 1..Len(remote.downloads) : transferFails("download", i)
    \/ \E i \in 1..Len(remote.uploads) : transferFails("upload", i)

StoreSpec == StoreInit /\ [][StoreNext]_vars

(***************************************************************************)
(* C29.  Store read-after-write: once writeDB(D) has returned, every later *)
(* readDB made with no other writeDB in between returns D, also with the   *)
(* remote store configured and a refresh started by an earlier readDB      *)
(* ending after the write.                                                 *)
(***************************************************************************)
C29_ReadAfterWrite ==
    (call.fn = "readDB" /\ call.written # Nothing) => call.ret = call.written

====
